---- MODULE Spec2Model ----
(***************************************************************************)
(* Bookora: slot engine (get_available_slots) and booking transactor       *)
(* (book_confirm / create_booking_atomic / cancel_booking) of              *)
(* src/booking/views.py, with the Booking entity of src/booking/models.py. *)
(*                                                                         *)
(* Time is an integer number of minutes since Monday 00:00 UTC             *)
(* (settings.TIME_ZONE = "UTC", so make_aware adds no offset).  A day is   *)
(* numbered from that Monday: day d covers [d*1440, (d+1)*1440).           *)
(*                                                                         *)
(* Storage is a relational database in READ COMMITTED isolation (the       *)
(* PostgreSQL deployment selected by DATABASE_URL in settings.py, the only *)
(* configured backend on which select_for_update() takes row locks): every *)
(* statement reads the rows committed when it runs, a row written inside   *)
(* transaction.atomic() becomes visible at commit, and SELECT ... FOR      *)
(* UPDATE locks the existing rows it returns until the transaction ends.   *)
(***************************************************************************)
EXTENDS Integers, Sequences, FiniteSets, TLC

VARIABLES rules, timeoffs, bookings, now, locks, pc, req, result, query, slots

vars == <<rules, timeoffs, bookings, now, locks, pc, req, result, query, slots>>

----------------------------------------------------------------------------
(* Program constants *)

\* step = timedelta(minutes=30)
step == 30
\* PAUZA_MIN = 15
PAUZA_MIN == 15
\* booking_threshold = now + timedelta(hours=2)
THRESHOLD_HOURS == 2
\* timedelta(days=1), in minutes
DAY_MINUTES == 1440

CONFIRMED == "CONFIRMED"
CANCELLED == "CANCELLED"

----------------------------------------------------------------------------
(* Bounds of the model *)

\* no create call begins once this many Booking rows are stored; book_confirm
\* counts the calls in progress as rows
MaxBookings == 2

\* request sessions; session p is logged in as user p
Proc == {"u1", "u2"}
\* Service rows: (workspace, duration_min)
Services == { [workspace |-> "A", duration_min |-> 30],
              [workspace |-> "A", duration_min |-> 60],
              [workspace |-> "B", duration_min |-> 30] }
\* the (service, start) pairs a client posts to book_confirm
Requests == { <<[workspace |-> "A", duration_min |-> 30], 600>>,
              <<[workspace |-> "A", duration_min |-> 30], 630>>,
              <<[workspace |-> "A", duration_min |-> 60], 600>>,
              <<[workspace |-> "B", duration_min |-> 30], 600>> }
\* the instant of the first request: Monday 08:00
Now0 == 8 * 60
\* the instants the clock is read at: Monday 08:00 and 08:30
NowChoices == {Now0, Now0 + step}
\* TimeOff rows a provider may store, as (workspace, start_at, end_at):
\* Monday 10:45-12:00, inside the 60-minute request that starts at 10:00
TimeOffChoices == { [workspace |-> "A", start_at |-> 645, end_at |-> 720] }

----------------------------------------------------------------------------
(* Pure helpers *)

Range(s) == { s[i] : i \in 1..Len(s) }

\* date.weekday(): Monday is 0
weekday_of(day) == day % 7

\* stable insertion of r into a sequence ordered by start_time
RECURSIVE InsertByStart(_, _)
InsertByStart(r, s) ==
    IF s = <<>> THEN <<r>>
    ELSE IF r.start_time < Head(s).start_time THEN <<r>> \o s
    ELSE <<Head(s)>> \o InsertByStart(r, Tail(s))

RECURSIVE OrderByStart(_)
OrderByStart(s) ==
    IF s = <<>> THEN <<>>
    ELSE InsertByStart(s[Len(s)], OrderByStart(SubSeq(s, 1, Len(s) - 1)))

\* the rules query without order_by: the rows come in insertion order
RulesFor_unordered(rs, ws, wd) ==
    SelectSeq(rs, LAMBDA r : r.workspace = ws /\ r.weekday = wd)

\* AvailabilityRule.objects.filter(workspace, weekday).order_by("start_time")
RulesFor(rs, ws, wd) ==
    OrderByStart(SelectSeq(rs, LAMBDA r : r.workspace = ws /\ r.weekday = wd))

\* the occupancy query with the day window as containment: a row that starts
\* before the day is not fetched
existing_bookings_in_day(bs, ws, day_start, day_end) ==
    { <<bs[i].start_at, bs[i].end_at>> :
        i \in { j \in 1..Len(bs) : /\ bs[j].workspace = ws
                                   /\ bs[j].status = CONFIRMED
                                   /\ bs[j].start_at >= day_start
                                   /\ bs[j].start_at < day_end } }

\* the occupancy query without the status filter: Cancelled rows still occlude
existing_bookings_any_status(bs, ws, day_start, day_end) ==
    { <<bs[i].start_at, bs[i].end_at>> :
        i \in { j \in 1..Len(bs) : /\ bs[j].workspace = ws
                                   /\ bs[j].start_at < day_end
                                   /\ bs[j].end_at > day_start } }

\* Booking.objects.filter(workspace, status=CONFIRMED, start_at__lt=day_end,
\*                        end_at__gt=day_start).values_list("start_at", "end_at")
existing_bookings(bs, ws, day_start, day_end) ==
    { <<bs[i].start_at, bs[i].end_at>> :
        i \in { j \in 1..Len(bs) : /\ bs[j].workspace = ws
                                   /\ bs[j].status = CONFIRMED
                                   /\ bs[j].start_at < day_end
                                   /\ bs[j].end_at > day_start } }

\* TimeOff.objects.filter(workspace, start_at__lt=day_end, end_at__gt=day_start)
time_off_periods(tos, ws, day_start, day_end) ==
    { <<t.start_at, t.end_at>> :
        t \in { x \in tos : /\ x.workspace = ws
                            /\ x.start_at < day_end
                            /\ x.end_at > day_start } }

\* the occupancy test with the buffer also added after the blocked interval
is_occupied_buffer_both(blocked, candidate_start, candidate_end) ==
    \E iv \in blocked : iv[1] < candidate_end /\ iv[2] + PAUZA_MIN > candidate_start

\* any(start < candidate_end and end > candidate_start for ... in blocked)
is_occupied(blocked, candidate_start, candidate_end) ==
    \E iv \in blocked : iv[1] < candidate_end /\ iv[2] > candidate_start

\* the while loop without the lead-time test
RECURSIVE WalkRule_no_lead(_, _, _, _, _)
WalkRule_no_lead(t, end_dt, dur_cu_pauza, booking_threshold, blocked) ==
    IF t + dur_cu_pauza <= end_dt
    THEN IF ~ is_occupied(blocked, t, t + dur_cu_pauza)
         THEN <<t>> \o WalkRule_no_lead(t + step, end_dt, dur_cu_pauza,
                                        booking_threshold, blocked)
         ELSE WalkRule_no_lead(t + step, end_dt, dur_cu_pauza, booking_threshold, blocked)
    ELSE <<>>

\* the while loop with the lead-time test as candidate_start <= booking_threshold
RECURSIVE WalkRule_lead_closed(_, _, _, _, _)
WalkRule_lead_closed(t, end_dt, dur_cu_pauza, booking_threshold, blocked) ==
    IF t + dur_cu_pauza <= end_dt
    THEN IF t <= booking_threshold
         THEN WalkRule_lead_closed(t + step, end_dt, dur_cu_pauza, booking_threshold,
                                   blocked)
         ELSE IF ~ is_occupied(blocked, t, t + dur_cu_pauza)
              THEN <<t>> \o WalkRule_lead_closed(t + step, end_dt, dur_cu_pauza,
                                                 booking_threshold, blocked)
              ELSE WalkRule_lead_closed(t + step, end_dt, dur_cu_pauza,
                                        booking_threshold, blocked)
    ELSE <<>>

\* the while loop with the window test on the service alone, without the
\* buffer
RECURSIVE WalkRule_fit_service(_, _, _, _, _)
WalkRule_fit_service(t, end_dt, dur_cu_pauza, booking_threshold, blocked) ==
    IF t + dur_cu_pauza - PAUZA_MIN <= end_dt
    THEN IF t < booking_threshold
         THEN WalkRule_fit_service(t + step, end_dt, dur_cu_pauza, booking_threshold,
                                   blocked)
         ELSE IF ~ is_occupied(blocked, t, t + dur_cu_pauza)
              THEN <<t>> \o WalkRule_fit_service(t + step, end_dt, dur_cu_pauza,
                                                 booking_threshold, blocked)
              ELSE WalkRule_fit_service(t + step, end_dt, dur_cu_pauza,
                                        booking_threshold, blocked)
    ELSE <<>>

\* the while loop leaving the rule at the first occupied candidate (break in
\* place of continue)
RECURSIVE WalkRule_break_on_occupied(_, _, _, _, _)
WalkRule_break_on_occupied(t, end_dt, dur_cu_pauza, booking_threshold, blocked) ==
    IF t + dur_cu_pauza <= end_dt
    THEN IF t < booking_threshold
         THEN WalkRule_break_on_occupied(t + step, end_dt, dur_cu_pauza,
                                         booking_threshold, blocked)
         ELSE IF ~ is_occupied(blocked, t, t + dur_cu_pauza)
              THEN <<t>> \o WalkRule_break_on_occupied(t + step, end_dt, dur_cu_pauza,
                                                       booking_threshold, blocked)
              ELSE <<>>
    ELSE <<>>

\* the while loop over one rule, from candidate t
RECURSIVE WalkRule(_, _, _, _, _)
WalkRule(t, end_dt, dur_cu_pauza, booking_threshold, blocked) ==
    IF t + dur_cu_pauza <= end_dt
    THEN IF t < booking_threshold
         THEN WalkRule(t + step, end_dt, dur_cu_pauza, booking_threshold, blocked)
         ELSE IF ~ is_occupied(blocked, t, t + dur_cu_pauza)
              THEN <<t>> \o WalkRule(t + step, end_dt, dur_cu_pauza,
                                     booking_threshold, blocked)
              ELSE WalkRule(t + step, end_dt, dur_cu_pauza, booking_threshold, blocked)
    ELSE <<>>

\* the for loop over the day's rules
RECURSIVE WalkRules(_, _, _, _, _)
WalkRules(rs, day_start, dur_cu_pauza, booking_threshold, blocked) ==
    IF rs = <<>> THEN <<>>
    ELSE WalkRule(day_start + Head(rs).start_time, day_start + Head(rs).end_time,
                  dur_cu_pauza, booking_threshold, blocked)
         \o WalkRules(Tail(rs), day_start, dur_cu_pauza, booking_threshold, blocked)

\* get_available_slots(workspace, service, day), reading rules rs, bookings
\* bs, time-off rows tos and the clock nw
SlotsOf(rs, bs, tos, nw, ws, duration_min, day) ==
    LET day_rules == RulesFor(rs, ws, weekday_of(day))
        booking_threshold == nw + THRESHOLD_HOURS * 60
        day_start == day * DAY_MINUTES
        day_end == day_start + DAY_MINUTES
        all_blocked_intervals ==
            existing_bookings(bs, ws, day_start, day_end)
              \cup time_off_periods(tos, ws, day_start, day_end)
        dur_cu_pauza == duration_min + PAUZA_MIN
    IN  IF day_rules = <<>> THEN <<>>
        ELSE WalkRules(day_rules, day_start, dur_cu_pauza, booking_threshold,
                       all_blocked_intervals)

get_available_slots(ws, duration_min, day) ==
    SlotsOf(rules, bookings, timeoffs, now, ws, duration_min, day)

\* start_at.date()
date_of(start_at) == start_at \div DAY_MINUTES

----------------------------------------------------------------------------
(* Booking queries *)

\* overlap with closed intervals: a row that only touches the request matches
overlap_closed(bs, ws, start_at, end_at) ==
    { i \in 1..Len(bs) : /\ bs[i].workspace = ws
                         /\ bs[i].status = CONFIRMED
                         /\ bs[i].start_at <= end_at
                         /\ bs[i].end_at >= start_at }

\* overlap as a point test: only a row with the same start is matched
overlap_same_start(bs, ws, start_at, end_at) ==
    { i \in 1..Len(bs) : /\ bs[i].workspace = ws
                         /\ bs[i].status = CONFIRMED
                         /\ bs[i].start_at = start_at }

\* overlap without the workspace filter: rows of every workspace are matched
overlap_any_workspace(bs, ws, start_at, end_at) ==
    { i \in 1..Len(bs) : /\ bs[i].status = CONFIRMED
                         /\ bs[i].start_at < end_at
                         /\ bs[i].end_at > start_at }

\* create_booking_atomic: Booking.objects.select_for_update().filter(
\*   workspace, status=CONFIRMED).filter(start_at__lt=end_at, end_at__gt=start_at)
\* the ids of the committed rows the query matches
overlap(bs, ws, start_at, end_at) ==
    { i \in 1..Len(bs) : /\ bs[i].workspace = ws
                         /\ bs[i].status = CONFIRMED
                         /\ bs[i].start_at < end_at
                         /\ bs[i].end_at > start_at }

\* Booking.clean without the status filter: Cancelled rows are matched too
clean_qs_any_status(bs, ws, start_at, end_at, pk) ==
    { i \in 1..Len(bs) : /\ bs[i].workspace = ws
                         /\ bs[i].start_at < end_at
                         /\ bs[i].end_at > start_at
                         /\ (pk # 0 => i # pk) }

\* Booking.clean: the overlap queryset, with exclude(pk=self.pk) when the
\* instance has a pk (pk = 0 stands for an unsaved instance)
clean_qs(bs, ws, start_at, end_at, pk) ==
    { i \in 1..Len(bs) : /\ bs[i].workspace = ws
                         /\ bs[i].status = CONFIRMED
                         /\ bs[i].start_at < end_at
                         /\ bs[i].end_at > start_at
                         /\ (pk # 0 => i # pk) }

\* Booking.clean (run by full_clean): TRUE when it raises ValidationError
clean_raises(bs, ws, start_at, end_at, pk) ==
    \/ end_at <= start_at
    \/ clean_qs(bs, ws, start_at, end_at, pk) # {}

----------------------------------------------------------------------------
(* State *)

NoReq == [op |-> "none", workspace |-> "A", duration_min |-> 0,
          start_at |-> 0, end_at |-> 0, id |-> 0, empty |-> FALSE]
NoQuery == [workspace |-> "A", duration_min |-> 0, day |-> 0, now |-> 0,
            asked |-> FALSE]

\* the request slot of a session whose cancel_booking request has ended
CancelDone == [NoReq EXCEPT !.op = "cancel"]

\* rows locked by some open transaction
Locked == UNION { locks[p] : p \in Proc }

\* create calls that have not finished
InFlight == { p \in Proc : pc[p] \in {"tx_check", "tx_conflict", "tx_clean",
                                      "tx_save", "tx_insert"} }

\* the weekly rules of the deployment: Monday 09:00-17:00 for both workspaces
Rules0 == << [workspace |-> "A", weekday |-> 0, start_time |-> 540, end_time |-> 1020],
             [workspace |-> "B", weekday |-> 0, start_time |-> 540, end_time |-> 1020] >>

Init ==
    /\ rules = Rules0
    /\ timeoffs = {}
    /\ bookings = <<>>
    /\ now = Now0
    /\ locks = [p \in Proc |-> {}]
    /\ pc = [p \in Proc |-> "idle"]
    /\ req = [p \in Proc |-> NoReq]
    /\ result = [p \in Proc |-> "none"]
    /\ query = NoQuery
    /\ slots = <<>>

----------------------------------------------------------------------------
(* book_confirm and create_booking_atomic *)

\* the request with the buffer counted into the booked interval
NewReq_end_with_buffer(svc, start_at) ==
    [op |-> "book", workspace |-> svc.workspace, duration_min |-> svc.duration_min,
     start_at |-> start_at, end_at |-> start_at + svc.duration_min + PAUZA_MIN,
     id |-> 0,
     empty |-> \A i \in 1..Len(bookings) : bookings[i].workspace # svc.workspace]

\* book_confirm: the service and start of the request, and
\* end_at = start_at + timedelta(minutes=service.duration_min)
NewReq(svc, start_at) ==
    [op |-> "book", workspace |-> svc.workspace, duration_min |-> svc.duration_min,
     start_at |-> start_at, end_at |-> start_at + svc.duration_min, id |-> 0,
     empty |-> \A i \in 1..Len(bookings) : bookings[i].workspace # svc.workspace]

\* book_confirm, POST by a client: the slot list is recomputed and the
\* requested start must be in it; then create_booking_atomic is called
book_confirm(p) ==
    /\ pc[p] = "idle"
    /\ Len(bookings) + Cardinality(InFlight) < MaxBookings
    /\ \E svc \in Services, start_at \in { r[2] : r \in Requests } :
         LET available_slots ==
                 get_available_slots(svc.workspace, svc.duration_min, date_of(start_at))
         IN  /\ <<svc, start_at>> \in Requests
             /\ IF start_at \notin Range(available_slots)
                THEN /\ result' = [result EXCEPT ![p] = "unavailable"]
                     /\ req' = [req EXCEPT ![p] = NoReq]
                     /\ pc' = pc
                ELSE /\ result' = [result EXCEPT ![p] = "none"]
                     /\ req' = [req EXCEPT ![p] = NewReq(svc, start_at)]
                     /\ pc' = [pc EXCEPT ![p] = "tx_check"]
    /\ UNCHANGED <<rules, timeoffs, bookings, now, locks, query, slots>>

\* create_booking_atomic: overlap.exists() inside transaction.atomic(); the
\* locking read returns (and locks) one matching row, or waits for its lock
tx_check(p) ==
    /\ pc[p] = "tx_check"
    /\ LET ov == overlap(bookings, req[p].workspace, req[p].start_at, req[p].end_at)
       IN  IF ov = {}
           THEN /\ pc' = [pc EXCEPT ![p] = "tx_clean"]
                /\ locks' = locks
           ELSE \E i \in ov :
                  /\ i \notin Locked
                  /\ locks' = [locks EXCEPT ![p] = {i}]
                  /\ pc' = [pc EXCEPT ![p] = "tx_conflict"]
    /\ UNCHANGED <<rules, timeoffs, bookings, now, req, result, query, slots>>

\* the row create_booking_atomic builds
NewBooking(p) ==
    [workspace |-> req[p].workspace, start_at |-> req[p].start_at,
     end_at |-> req[p].end_at, status |-> CONFIRMED, customer |-> p]

\* SlotError raised after the row was written outside the atomic block: the
\* row survives the abort
tx_raise_row_survives(p) ==
    /\ pc[p] = "tx_conflict"
    /\ pc' = [pc EXCEPT ![p] = "idle"]
    /\ result' = [result EXCEPT ![p] = "SlotError"]
    /\ locks' = [locks EXCEPT ![p] = {}]
    /\ bookings' = Append(bookings, NewBooking(p))
    /\ UNCHANGED <<rules, timeoffs, now, req, query, slots>>

\* SlotError raised with the row lock left held, as if the locking read ran
\* in a transaction that is never ended
tx_raise_keeps_lock(p) ==
    /\ pc[p] = "tx_conflict"
    /\ pc' = [pc EXCEPT ![p] = "idle"]
    /\ result' = [result EXCEPT ![p] = "SlotError"]
    /\ UNCHANGED <<rules, timeoffs, bookings, now, locks, req, query, slots>>

\* raise SlotError: the atomic block rolls back and its row locks are released
tx_raise(p) ==
    /\ pc[p] = "tx_conflict"
    /\ pc' = [pc EXCEPT ![p] = "idle"]
    /\ result' = [result EXCEPT ![p] = "SlotError"]
    /\ locks' = [locks EXCEPT ![p] = {}]
    /\ UNCHANGED <<rules, timeoffs, bookings, now, req, query, slots>>

\* booking.full_clean() on the unsaved instance
tx_full_clean(p) ==
    /\ pc[p] = "tx_clean"
    /\ IF clean_raises(bookings, req[p].workspace, req[p].start_at, req[p].end_at, 0)
       THEN /\ pc' = [pc EXCEPT ![p] = "idle"]
            /\ result' = [result EXCEPT ![p] = "ValidationError"]
       ELSE /\ pc' = [pc EXCEPT ![p] = "tx_save"]
            /\ result' = result
    /\ UNCHANGED <<rules, timeoffs, bookings, now, locks, req, query, slots>>

\* booking.save(): Booking.save runs full_clean() again
tx_save_clean(p) ==
    /\ pc[p] = "tx_save"
    /\ IF clean_raises(bookings, req[p].workspace, req[p].start_at, req[p].end_at, 0)
       THEN /\ pc' = [pc EXCEPT ![p] = "idle"]
            /\ result' = [result EXCEPT ![p] = "ValidationError"]
       ELSE /\ pc' = [pc EXCEPT ![p] = "tx_insert"]
            /\ result' = result
    /\ UNCHANGED <<rules, timeoffs, bookings, now, locks, req, query, slots>>

\* super().save(): INSERT, then the atomic block commits and the row becomes
\* visible to the other sessions
tx_insert(p) ==
    /\ pc[p] = "tx_insert"
    /\ bookings' = Append(bookings, NewBooking(p))
    /\ pc' = [pc EXCEPT ![p] = "idle"]
    /\ result' = [result EXCEPT ![p] = "ok"]
    /\ locks' = [locks EXCEPT ![p] = {}]
    /\ UNCHANGED <<rules, timeoffs, now, req, query, slots>>

----------------------------------------------------------------------------
(* cancel_booking *)

\* cancel_booking with the row fetched by id alone, whoever its customer is
cancel_booking_any_customer(p) ==
    /\ pc[p] = "idle"
    /\ \E id \in 1..Len(bookings) :
         /\ result' = [result EXCEPT ![p] = "none"]
         /\ req' = [req EXCEPT ![p] =
                      [op |-> "cancel", workspace |-> bookings[id].workspace,
                       duration_min |-> 0, start_at |-> bookings[id].start_at,
                       end_at |-> bookings[id].end_at, id |-> id, empty |-> FALSE]]
         /\ pc' = [pc EXCEPT ![p] = "cancel_clean"]
    /\ UNCHANGED <<rules, timeoffs, bookings, now, locks, query, slots>>

\* cancel_booking, POST by a client: get_object_or_404(Booking, id, customer)
\* and booking.status = CANCELLED on the fetched instance
cancel_booking(p) ==
    /\ pc[p] = "idle"
    /\ \E id \in 1..Len(bookings) :
         IF bookings[id].customer # p
         THEN /\ result' = [result EXCEPT ![p] = "Http404"]
              /\ req' = [req EXCEPT ![p] = CancelDone]
              /\ pc' = pc
         ELSE /\ result' = [result EXCEPT ![p] = "none"]
              /\ req' = [req EXCEPT ![p] =
                           [op |-> "cancel", workspace |-> bookings[id].workspace,
                            duration_min |-> 0, start_at |-> bookings[id].start_at,
                            end_at |-> bookings[id].end_at, id |-> id, empty |-> FALSE]]
              /\ pc' = [pc EXCEPT ![p] = "cancel_clean"]
    /\ UNCHANGED <<rules, timeoffs, bookings, now, locks, query, slots>>

\* booking.save(update_fields=["status"]): Booking.save runs full_clean(); a
\* ValidationError is not caught by the view
cancel_full_clean(p) ==
    /\ pc[p] = "cancel_clean"
    /\ IF clean_raises(bookings, req[p].workspace, req[p].start_at, req[p].end_at,
                       req[p].id)
       THEN /\ pc' = [pc EXCEPT ![p] = "idle"]
            /\ result' = [result EXCEPT ![p] = "ValidationError"]
            /\ req' = [req EXCEPT ![p] = CancelDone]
       ELSE /\ pc' = [pc EXCEPT ![p] = "cancel_update"]
            /\ result' = result
            /\ req' = req
    /\ UNCHANGED <<rules, timeoffs, bookings, now, locks, query, slots>>

\* the update as a toggle of the status column: a second cancel restores
\* Confirmed
cancel_update_toggle(p) ==
    /\ pc[p] = "cancel_update"
    /\ req[p].id \notin Locked
    /\ bookings' = [bookings EXCEPT ![req[p].id].status =
                       IF @ = CONFIRMED THEN CANCELLED ELSE CONFIRMED]
    /\ pc' = [pc EXCEPT ![p] = "idle"]
    /\ result' = [result EXCEPT ![p] = "cancelled"]
    /\ req' = [req EXCEPT ![p] = CancelDone]
    /\ UNCHANGED <<rules, timeoffs, now, locks, query, slots>>

\* super().save(update_fields=["status"]): UPDATE of the status column, which
\* waits while another transaction holds the row's lock
cancel_update(p) ==
    /\ pc[p] = "cancel_update"
    /\ req[p].id \notin Locked
    /\ bookings' = [bookings EXCEPT ![req[p].id].status = CANCELLED]
    /\ pc' = [pc EXCEPT ![p] = "idle"]
    /\ result' = [result EXCEPT ![p] = "cancelled"]
    /\ req' = [req EXCEPT ![p] = CancelDone]
    /\ UNCHANGED <<rules, timeoffs, now, locks, query, slots>>

----------------------------------------------------------------------------
(* Provider and clock *)

\* provider_timeoff, POST: TimeOff.full_clean() (end after start) and save()
provider_timeoff ==
    /\ \E t \in TimeOffChoices :
         /\ t \notin timeoffs
         /\ ~ (t.end_at <= t.start_at)
         /\ timeoffs' = timeoffs \cup {t}
    /\ UNCHANGED <<rules, bookings, now, locks, pc, req, result, query, slots>>

\* delete_timeoff
delete_timeoff ==
    /\ \E t \in timeoffs : timeoffs' = timeoffs \ {t}
    /\ UNCHANGED <<rules, bookings, now, locks, pc, req, result, query, slots>>

\* timezone.now() advances
Tick ==
    /\ \E t \in NowChoices : t > now /\ now' = t
    /\ UNCHANGED <<rules, timeoffs, bookings, locks, pc, req, result, query, slots>>

----------------------------------------------------------------------------
(* The program: concurrent client sessions, the provider, the clock *)

Next ==
    \/ \E p \in Proc : book_confirm(p)
    \/ \E p \in Proc : tx_check(p)
    \/ \E p \in Proc : tx_raise(p)
    \/ \E p \in Proc : tx_full_clean(p)
    \/ \E p \in Proc : tx_save_clean(p)
    \/ \E p \in Proc : tx_insert(p)
    \/ \E p \in Proc : cancel_booking(p)
    \/ \E p \in Proc : cancel_full_clean(p)
    \/ \E p \in Proc : cancel_update(p)
    \/ provider_timeoff
    \/ delete_timeoff
    \/ Tick

Spec == Init /\ [][Next]_vars

----------------------------------------------------------------------------
(* The transactor called one call at a time *)

\* create_booking_atomic called directly with a service and a start
create_booking_atomic(p) ==
    /\ pc[p] = "idle"
    /\ Len(bookings) < MaxBookings
    /\ \E r \in Requests :
         /\ req' = [req EXCEPT ![p] = NewReq(r[1], r[2])]
         /\ result' = [result EXCEPT ![p] = "none"]
         /\ pc' = [pc EXCEPT ![p] = "tx_check"]
    /\ UNCHANGED <<rules, timeoffs, bookings, now, locks, query, slots>>

AllIdle == \A p \in Proc : pc[p] = "idle"

\* a request starts only when no other request is in progress
NextSeq ==
    \/ \E p \in Proc : AllIdle /\ create_booking_atomic(p)
    \/ \E p \in Proc : AllIdle /\ book_confirm(p)
    \/ \E p \in Proc : tx_check(p)
    \/ \E p \in Proc : tx_raise(p)
    \/ \E p \in Proc : tx_full_clean(p)
    \/ \E p \in Proc : tx_save_clean(p)
    \/ \E p \in Proc : tx_insert(p)
    \/ \E p \in Proc : AllIdle /\ cancel_booking(p)
    \/ \E p \in Proc : cancel_full_clean(p)
    \/ \E p \in Proc : cancel_update(p)
    \/ provider_timeoff
    \/ delete_timeoff
    \/ Tick

SpecSeq == Init /\ [][NextSeq]_vars

----------------------------------------------------------------------------
(* The transactor called concurrently: create_booking_atomic entered       *)
(* directly by every session                                               *)

NextTx ==
    \/ \E p \in Proc : create_booking_atomic(p)
    \/ \E p \in Proc : tx_check(p)
    \/ \E p \in Proc : tx_raise(p)
    \/ \E p \in Proc : tx_full_clean(p)
    \/ \E p \in Proc : tx_save_clean(p)
    \/ \E p \in Proc : tx_insert(p)

SpecTx == Init /\ [][NextTx]_vars

\* a request thread that can run keeps running, and a transaction waiting
\* for a row lock is served from the lock's wait queue once the lock is free
FairTx ==
    \A p \in Proc :
        /\ WF_vars(tx_raise(p) \/ tx_full_clean(p) \/ tx_save_clean(p) \/ tx_insert(p))
        /\ SF_vars(tx_check(p))

SpecTxFair == SpecTx /\ FairTx

----------------------------------------------------------------------------
(* The slot engine on its own: slots_view over stored rules, time-off and  *)
(* bookings                                                                *)

Rule(ws, wd, s, e) == [workspace |-> ws, weekday |-> wd, start_time |-> s, end_time |-> e]
Row(ws, s, e, st) ==
    [workspace |-> ws, start_at |-> s, end_at |-> e, status |-> st, customer |-> "u1"]
Off(ws, s, e) == [workspace |-> ws, start_at |-> s, end_at |-> e]

\* stored weekly rules, in insertion order
RuleConfigs ==
    { <<>>,
      << Rule("A", 0, 540, 1020) >>,
      << Rule("A", 0, 540, 720), Rule("A", 0, 720, 1020) >>,
      << Rule("A", 0, 780, 1020), Rule("A", 0, 540, 720) >>,
      << Rule("A", 0, 540, 780), Rule("A", 0, 600, 840) >>,
      << Rule("A", 0, 555, 1020) >>,
      << Rule("A", 0, 540, 1020), Rule("A", 0, 585, 720) >>,
      << Rule("A", 0, 540, 570), Rule("B", 0, 540, 1020) >>,
      << Rule("A", 0, 1320, 1439), Rule("A", 1, 0, 120) >> }

\* stored bookings
BookingConfigs ==
    { <<>>,
      << Row("A", 600, 630, CONFIRMED) >>,
      << Row("A", 600, 630, CANCELLED) >>,
      << Row("B", 600, 630, CONFIRMED) >>,
      << Row("A", 600, 630, CONFIRMED), Row("A", 660, 720, CONFIRMED) >>,
      << Row("A", 1410, 1470, CONFIRMED) >> }

\* stored time-off rows
TimeOffConfigs ==
    { {}, { Off("A", 660, 720) }, { Off("A", 1380, 1500) }, { Off("B", 540, 1020) } }

\* instants at which a slot list is asked for (Monday 07:00, 08:00, 08:05,
\* 08:30)
SlotNows == { Now0 - 60, Now0, Now0 + 5, Now0 + step }

\* (workspace, duration_min, day) of a slot query
SlotQueries ==
    { <<"A", 30, 0>>, <<"A", 60, 0>>, <<"A", 30, 1>>, <<"A", 600, 0>>, <<"B", 30, 0>> }

InitSlots ==
    /\ rules \in RuleConfigs
    /\ timeoffs \in TimeOffConfigs
    /\ bookings \in BookingConfigs
    /\ now \in SlotNows
    /\ locks = [p \in Proc |-> {}]
    /\ pc = [p \in Proc |-> "idle"]
    /\ req = [p \in Proc |-> NoReq]
    /\ result = [p \in Proc |-> "none"]
    /\ query = NoQuery
    /\ slots = <<>>

\* slots_view with the list kept between calls: each call appends to the
\* starts of the calls before it
slots_view_accumulates ==
    /\ \E q \in SlotQueries :
         /\ query' = [workspace |-> q[1], duration_min |-> q[2], day |-> q[3],
                      now |-> now, asked |-> TRUE]
         /\ slots' = slots \o get_available_slots(q[1], q[2], q[3])
    /\ UNCHANGED <<rules, timeoffs, bookings, now, locks, pc, req, result>>

\* slots_view: get_available_slots(workspace, service, day), rendered
slots_view ==
    /\ \E q \in SlotQueries :
         /\ query' = [workspace |-> q[1], duration_min |-> q[2], day |-> q[3],
                      now |-> now, asked |-> TRUE]
         /\ slots' = get_available_slots(q[1], q[2], q[3])
    /\ UNCHANGED <<rules, timeoffs, bookings, now, locks, pc, req, result>>

\* timezone.now() advances between two slot queries
TickSlots ==
    /\ \E t \in SlotNows : t > now /\ now' = t
    /\ UNCHANGED <<rules, timeoffs, bookings, locks, pc, req, result, query, slots>>

NextSlots == slots_view \/ TickSlots

SpecSlots == InitSlots /\ [][NextSlots]_vars

----------------------------------------------------------------------------
(* Vocabulary of the properties *)

\* row b is a Confirmed booking of workspace ws that overlaps [s, e)
Conflicts(b, ws, s, e) ==
    /\ b.workspace = ws
    /\ b.status = CONFIRMED
    /\ b.start_at < e
    /\ s < b.end_at

\* some stored row conflicts with the interval session p asks for
HasConflict(p) ==
    \E i \in 1..Len(bookings) :
        Conflicts(bookings[i], req[p].workspace, req[p].start_at, req[p].end_at)

\* the grid starts of day for a service of ws lasting dur: on the grid of a
\* rule of the day's weekday, with service and buffer inside the rule window
GridStarts(ws, dur, day) ==
    UNION { { t \in { day * DAY_MINUTES + rules[k].start_time + n * step :
                        n \in 0..(DAY_MINUTES \div step) } :
                t + dur + PAUZA_MIN <= day * DAY_MINUTES + rules[k].end_time } :
            k \in { j \in 1..Len(rules) : /\ rules[j].workspace = ws
                                          /\ rules[j].weekday = day % 7 } }

\* the inflated interval [t, t + dur + buffer) meets [s, e)
Occludes(s, e, t, dur) == s < t + dur + PAUZA_MIN /\ e > t

\* the outcomes of a create call that reached the transaction
Rejections == {"SlotError", "ValidationError"}

----------------------------------------------------------------------------
(* C1: in every reachable state, no two distinct Confirmed bookings of the *)
(* same workspace overlap.                                                 *)
C1_NoConfirmedOverlap ==
    \A i, j \in 1..Len(bookings) :
        (/\ i # j
         /\ bookings[i].workspace = bookings[j].workspace
         /\ bookings[i].status = CONFIRMED
         /\ bookings[j].status = CONFIRMED)
        => ~ (bookings[i].start_at < bookings[j].end_at
              /\ bookings[j].start_at < bookings[i].end_at)


(* C2: two concurrent create calls for the same workspace, start and       *)
(* duration, both begun while the workspace had no booking, end with       *)
(* exactly one success and one conflict error.                             *)
C2_ExactlyOneSuccess ==
    \A p, q \in Proc :
        (/\ p # q
         /\ pc[p] = "idle" /\ pc[q] = "idle"
         /\ req[p].op = "book" /\ req[q].op = "book"
         /\ req[p].empty /\ req[q].empty
         /\ req[p].workspace = req[q].workspace
         /\ req[p].start_at = req[q].start_at
         /\ req[p].end_at = req[q].end_at)
        => \/ result[p] = "ok" /\ result[q] \in Rejections
           \/ result[q] = "ok" /\ result[p] \in Rejections

(* C3: a start that passed the slot list is still rejected when, at the    *)
(* moment of the transaction's check, a Confirmed booking committed by     *)
(* another session overlaps it: the check goes to the conflict branch, the *)
(* call ends with SlotError, and neither step inserts a booking.           *)
C3_StaleSlotRejected ==
    [][ \A p \in Proc :
          /\ (pc[p] = "tx_check" /\ pc'[p] # "tx_check" /\ HasConflict(p))
               => (pc'[p] = "tx_conflict" /\ bookings' = bookings)
          /\ (pc[p] = "tx_conflict" /\ pc'[p] # "tx_conflict")
               => (result'[p] = "SlotError" /\ bookings' = bookings) ]_vars

\* a session whose listed slot was taken by another session before its check
C3_Witness ==
    \E p \in Proc :
        /\ pc[p] = "idle" /\ req[p].op = "book" /\ result[p] = "SlotError"
        /\ \E i \in 1..Len(bookings) :
             /\ bookings[i].customer # p
             /\ Conflicts(bookings[i], req[p].workspace, req[p].start_at, req[p].end_at)

(* C4: no step of a create call that ends in a conflict error writes: the  *)
(* stored bookings are the same after the step as before it, and the       *)
(* aborted call holds no lock.                                             *)
C4_AbortWritesNothing ==
    [][ \A p \in Proc :
          (/\ pc[p] \in {"tx_check", "tx_conflict", "tx_clean", "tx_save"}
           /\ pc'[p] # pc[p])
          => /\ bookings' = bookings
             /\ (pc'[p] = "idle" => result'[p] \in Rejections /\ locks'[p] = {}) ]_vars

\* a call ended with SlotError and the stored rows are those of the others
C4_Witness ==
    \E p \in Proc :
        /\ pc[p] = "idle" /\ req[p].op = "book" /\ result[p] = "SlotError"
        /\ HasConflict(p)
        /\ \A i \in 1..Len(bookings) : bookings[i].customer # p

(* C10: a create call is rejected only when a Confirmed booking of the     *)
(* workspace overlaps its interval at that moment; Cancelled rows never    *)
(* cause a rejection, so a vacated interval can be booked again.           *)
C10_CancelledInert ==
    [][ \A p \in Proc :
          (\/ pc[p] = "tx_check" /\ pc'[p] = "tx_conflict"
           \/ pc[p] \in {"tx_clean", "tx_save"} /\ pc'[p] = "idle")
          => HasConflict(p) ]_vars

\* a Confirmed booking stored after a Cancelled one that it overlaps
C10_Witness ==
    \E i, j \in 1..Len(bookings) :
        /\ i < j
        /\ bookings[i].status = CANCELLED
        /\ bookings[j].status = CONFIRMED
        /\ bookings[i].workspace = bookings[j].workspace
        /\ bookings[i].start_at < bookings[j].end_at
        /\ bookings[j].start_at < bookings[i].end_at


(* C9: when a Confirmed booking is cancelled, every grid start of its day  *)
(* that respects the lead time and was occluded by that booking alone (by  *)
(* no time-off and no other Confirmed booking) is in the slot list         *)
(* computed in the state after the cancellation.                           *)
C9_CancelFreesSlots ==
    [][ \A p \in Proc :
          (/\ pc[p] = "cancel_update" /\ pc'[p] = "idle"
           /\ bookings[req[p].id].status = CONFIRMED)
          => LET id == req[p].id
                 b == bookings[id]
                 day == b.start_at \div DAY_MINUTES
                 others == { i \in 1..Len(bookings) :
                               /\ i # id
                               /\ bookings[i].workspace = b.workspace
                               /\ bookings[i].status = CONFIRMED }
                 offs == { x \in timeoffs : x.workspace = b.workspace }
             IN \A svc \in { x \in Services : x.workspace = b.workspace } :
                  LET freed ==
                        { t \in GridStarts(b.workspace, svc.duration_min, day) :
                            /\ Occludes(b.start_at, b.end_at, t, svc.duration_min)
                            /\ t >= now + 2 * 60
                            /\ \A i \in others :
                                 ~ Occludes(bookings[i].start_at, bookings[i].end_at,
                                            t, svc.duration_min)
                            /\ \A x \in offs :
                                 ~ Occludes(x.start_at, x.end_at, t, svc.duration_min) }
                      after == Range(SlotsOf(rules', bookings', timeoffs', now',
                                             b.workspace, svc.duration_min, day))
                  IN \A t \in freed : t \in after ]_vars

\* a Cancelled booking whose interval a listed slot now uses
C9_Witness ==
    \E i \in 1..Len(bookings), svc \in Services :
        /\ bookings[i].status = CANCELLED
        /\ svc.workspace = bookings[i].workspace
        /\ \E t \in Range(get_available_slots(svc.workspace, svc.duration_min,
                                              bookings[i].start_at \div DAY_MINUTES)) :
             Occludes(bookings[i].start_at, bookings[i].end_at, t, svc.duration_min)


(* C5: run one call at a time, a create call commits a new Confirmed       *)
(* booking if and only if no Confirmed booking of the workspace satisfies  *)
(* existing.start < end and existing.end > start (bare interval, no        *)
(* buffer): the check takes the conflict branch exactly when such a row    *)
(* exists, the validations pass when none does, and the commit appends the *)
(* Confirmed row.                                                          *)
C5_CommitIffNoOverlap ==
    [][ \A p \in Proc :
          /\ (pc[p] = "tx_check" /\ pc'[p] # "tx_check")
               => (pc'[p] = "tx_conflict" <=> HasConflict(p))
          /\ (pc[p] = "tx_conflict" /\ pc'[p] # "tx_conflict")
               => (HasConflict(p) /\ result'[p] = "SlotError" /\ bookings' = bookings)
          /\ (pc[p] \in {"tx_clean", "tx_save"} /\ pc'[p] # pc[p])
               => (~ HasConflict(p) /\ pc'[p] \in {"tx_save", "tx_insert"})
          /\ (pc[p] = "tx_insert" /\ pc'[p] # "tx_insert")
               => /\ ~ HasConflict(p)
                  /\ result'[p] = "ok"
                  /\ bookings' = Append(bookings,
                        [workspace |-> req[p].workspace, start_at |-> req[p].start_at,
                         end_at |-> req[p].end_at, status |-> CONFIRMED,
                         customer |-> p]) ]_vars

\* a booking committed although it ends exactly where an earlier Confirmed
\* booking of the workspace starts
C5_Witness ==
    \E i, j \in 1..Len(bookings) :
        /\ i < j
        /\ bookings[i].workspace = bookings[j].workspace
        /\ bookings[i].status = CONFIRMED
        /\ bookings[j].status = CONFIRMED
        /\ bookings[j].end_at = bookings[i].start_at


(* C6: no start in a slot list is earlier than the instant of the query    *)
(* plus the minimum lead time of 2 hours.                                  *)
C6_LeadTime ==
    query.asked => \A i \in 1..Len(slots) : ~ (slots[i] < query.now + 2 * 60)

\* a non-empty list whose rule window opens before the lead-time threshold
C6_Witness ==
    /\ query.asked
    /\ slots # <<>>
    /\ \E k \in 1..Len(rules) :
         /\ rules[k].workspace = query.workspace
         /\ rules[k].weekday = query.day % 7
         /\ query.day * DAY_MINUTES + rules[k].start_time < query.now + 2 * 60

(* C7: for every start t in a slot list, [t, t + duration + buffer) meets  *)
(* no stored time-off and no stored Confirmed booking of the workspace,    *)
(* whether or not that interval lies inside the day.                       *)
C7_NoOccupiedSlot ==
    query.asked =>
      \A n \in 1..Len(slots) :
        /\ \A i \in 1..Len(bookings) :
             (bookings[i].workspace = query.workspace /\ bookings[i].status = CONFIRMED)
             => ~ (bookings[i].start_at < slots[n] + query.duration_min + 15
                   /\ bookings[i].end_at > slots[n])
        /\ \A x \in timeoffs :
             x.workspace = query.workspace
             => ~ (x.start_at < slots[n] + query.duration_min + 15
                   /\ x.end_at > slots[n])

\* a non-empty list for a day into which a Confirmed booking reaches from the
\* day before
C7_Witness ==
    /\ query.asked
    /\ slots # <<>>
    /\ \E i \in 1..Len(bookings) :
         /\ bookings[i].workspace = query.workspace
         /\ bookings[i].status = CONFIRMED
         /\ bookings[i].start_at < query.day * DAY_MINUTES
         /\ bookings[i].end_at > query.day * DAY_MINUTES

\* Monday rule 09:00-17:00, no time-off, no booking, service 30 min, asked
\* for that Monday at 08:00
C8_Scenario ==
    /\ query = [workspace |-> "A", duration_min |-> 30, day |-> 0, now |-> 8 * 60,
                asked |-> TRUE]
    /\ rules = << Rule("A", 0, 9 * 60, 17 * 60) >>
    /\ timeoffs = {}
    /\ bookings = <<>>

(* C8 as stated: in the scenario the first start is 10:00 and the last     *)
(* start is 16:15.                                                         *)
C8_FirstAndLast_Stated ==
    C8_Scenario =>
      /\ slots # <<>>
      /\ slots[1] = 10 * 60
      /\ slots[Len(slots)] = 16 * 60 + 15

(* C8 amended: in the scenario the first start is 10:00 and the last start *)
(* is 16:00, the last point of the 30-minute grid from 09:00 whose service *)
(* and buffer end by 17:00.                                                *)
C8_FirstAndLast ==
    C8_Scenario =>
      /\ slots # <<>>
      /\ slots[1] = 10 * 60
      /\ slots[Len(slots)] = 16 * 60

\* the scenario has been asked
C8_Witness == C8_Scenario /\ Len(slots) > 1

----------------------------------------------------------------------------
(* C11: a cancel request takes effect only on a booking that is Confirmed: *)
(* the update it ends with finds the row Confirmed, flips it to Cancelled  *)
(* and reports the cancellation; a request on a row that is already        *)
(* Cancelled never reports a cancellation.                                 *)
C11_CancelOnlyConfirmed ==
    [][ \A p \in Proc :
          (pc[p] = "cancel_update" /\ pc'[p] = "idle")
          => /\ bookings[req[p].id].status = CONFIRMED
             /\ bookings'[req[p].id].status = CANCELLED
             /\ result'[p] = "cancelled" ]_vars

(* C12: a cancel request by a session that is not the booking's customer   *)
(* ends at once with a not-found answer and changes no booking; a request  *)
(* goes on to the update only for the requester's own booking, and a       *)
(* stored row changes only in the update of a cancel request made by its   *)
(* customer for that row.                                                  *)
C12_OthersCancelRefused ==
    [][ /\ \A p \in Proc :
             (/\ pc[p] = "idle"
              /\ req'[p].op = "cancel"
              /\ <<pc'[p], req'[p], result'[p]>> # <<pc[p], req[p], result[p]>>)
             => \/ /\ pc'[p] = "cancel_clean"
                   /\ bookings[req'[p].id].customer = p
                   /\ bookings' = bookings
                \/ /\ pc'[p] = "idle"
                   /\ result'[p] = "Http404"
                   /\ bookings' = bookings
        /\ \A i \in 1..Len(bookings) :
             bookings'[i] # bookings[i]
             => LET c == bookings[i].customer
                IN  pc[c] = "cancel_update" /\ req[c].id = i ]_vars

\* a session was answered not-found while a Confirmed booking of another
\* customer is stored
C12_Witness ==
    \E p \in Proc :
        /\ pc[p] = "idle" /\ req[p].op = "cancel" /\ result[p] = "Http404"
        /\ \E i \in 1..Len(bookings) :
             bookings[i].customer # p /\ bookings[i].status = CONFIRMED

(* C13: every step keeps every stored booking in storage with the same     *)
(* workspace, customer, start and end; the only change a step makes to a   *)
(* stored booking is the status flip from Confirmed to Cancelled, so a     *)
(* Cancelled booking is never Confirmed again.                             *)
C13_BookingsFrame ==
    [][ /\ Len(bookings') >= Len(bookings)
        /\ \A i \in 1..Len(bookings) :
             /\ bookings'[i].workspace = bookings[i].workspace
             /\ bookings'[i].customer = bookings[i].customer
             /\ bookings'[i].start_at = bookings[i].start_at
             /\ bookings'[i].end_at = bookings[i].end_at
             /\ bookings'[i].status # bookings[i].status
                  => (bookings[i].status = CONFIRMED
                      /\ bookings'[i].status = CANCELLED) ]_vars

\* a booking was cancelled and another booking was created after it
C13_Witness ==
    /\ Len(bookings) = 2
    /\ bookings[1].status = CANCELLED
    /\ bookings[2].status = CONFIRMED
    /\ result[bookings[1].customer] = "cancelled"
    /\ pc[bookings[1].customer] = "idle"

\* the step session p takes next inside create_booking_atomic
TxStep(p) ==
    tx_check(p) \/ tx_raise(p) \/ tx_full_clean(p) \/ tx_save_clean(p) \/ tx_insert(p)

(* C14: workspaces are independent.  A create call in progress can always  *)
(* take its next step unless a row of its own workspace is locked by       *)
(* another transaction, and the locks it holds are on rows of its own      *)
(* workspace; and when no Confirmed booking of its own workspace overlaps  *)
(* its interval, each of its steps goes forward to the commit, whatever    *)
(* the other workspaces store and whatever calls are in progress on them.  *)
C14_WorkspacesIndependent ==
    /\ [](\A p \in Proc :
            /\ p \in InFlight
                 => \/ ENABLED TxStep(p)
                    \/ \E q \in Proc \ {p} : \E i \in locks[q] :
                         bookings[i].workspace = req[p].workspace
            /\ \A i \in locks[p] : bookings[i].workspace = req[p].workspace)
    /\ [][ \A p \in Proc :
             (p \in InFlight /\ pc'[p] # pc[p] /\ ~ HasConflict(p))
             => \/ pc[p] = "tx_check" /\ pc'[p] = "tx_clean"
                \/ pc[p] = "tx_clean" /\ pc'[p] = "tx_save"
                \/ pc[p] = "tx_save" /\ pc'[p] = "tx_insert"
                \/ /\ pc[p] = "tx_insert" /\ pc'[p] = "idle"
                   /\ result'[p] = "ok"
                   /\ Len(bookings') = Len(bookings) + 1 ]_vars

\* two create calls for the same interval on two workspaces are both about
\* to commit
C14_Witness ==
    \E p, q \in Proc :
        /\ pc[p] = "tx_insert" /\ pc[q] = "tx_insert"
        /\ req[p].workspace # req[q].workspace
        /\ req[p].start_at = req[q].start_at
        /\ req[p].end_at = req[q].end_at

(* C15: a create call that has ended, by commit or by abort, holds no row  *)
(* lock; and under fair scheduling every create call in progress, also one *)
(* that waits for a row lock of its workspace, eventually ends with        *)
(* success or with a conflict error.                                       *)
C15_LocksReleased ==
    /\ [](\A p \in Proc : pc[p] = "idle" => locks[p] = {})
    /\ \A p \in Proc :
         (p \in InFlight)
           ~> (pc[p] = "idle" /\ result[p] \in {"ok"} \cup Rejections)

\* a create call waits at its locking read: every row it matches is locked
\* by the other session's transaction
C15_Witness ==
    \E p \in Proc :
        /\ pc[p] = "tx_check"
        /\ overlap(bookings, req[p].workspace, req[p].start_at, req[p].end_at) # {}
        /\ overlap(bookings, req[p].workspace, req[p].start_at, req[p].end_at)
             \subseteq UNION { locks[q] : q \in Proc \ {p} }

\* the stored rules of workspace ws for the weekday of day
DayRules(ws, day) ==
    { k \in 1..Len(rules) : rules[k].workspace = ws /\ rules[k].weekday = day % 7 }

\* no two rules of the day overlap each other
RulesDisjoint(ws, day) ==
    \A j, k \in DayRules(ws, day) :
        j # k => \/ rules[j].end_time <= rules[k].start_time
                 \/ rules[k].end_time <= rules[j].start_time

(* C16 as stated: every slot list is in strictly ascending order, for      *)
(* every set of rules of the day, rules that overlap each other included.  *)
C16_Ascending_Stated ==
    query.asked => \A i \in 1..(Len(slots) - 1) : slots[i] < slots[i + 1]

(* C16 amended: when no two rules of the requested day overlap each other  *)
(* (a single rule or disjoint split shifts, stored in any order), the slot *)
(* list is in strictly ascending order.                                    *)
C16_Ascending ==
    (query.asked /\ RulesDisjoint(query.workspace, query.day))
    => \A i \in 1..(Len(slots) - 1) : slots[i] < slots[i + 1]

\* a list with starts from two split shifts that are stored later shift
\* first
C16_Witness ==
    /\ query.asked
    /\ RulesDisjoint(query.workspace, query.day)
    /\ \E j, k \in DayRules(query.workspace, query.day) :
         /\ j < k
         /\ rules[k].start_time < rules[j].start_time
         /\ \E m, n \in 1..Len(slots) :
              /\ slots[m] < query.day * DAY_MINUTES + rules[k].end_time
              /\ slots[n] >= query.day * DAY_MINUTES + rules[j].start_time

\* the only blocked interval of workspace A is a Confirmed booking Monday
\* 10:00-10:30, and the list was asked for that Monday and a 30-minute service
C17_Scenario ==
    /\ query.asked
    /\ query.workspace = "A" /\ query.duration_min = 30 /\ query.day = 0
    /\ bookings = << Row("A", 10 * 60, 10 * 60 + 30, CONFIRMED) >>
    /\ \A x \in timeoffs : x.workspace # "A"

\* start t respects the lead time of the query and, with service and buffer,
\* lies inside a rule window of the day
C17_Eligible(t) ==
    /\ t >= query.now + 2 * 60
    /\ \E k \in DayRules("A", 0) :
         rules[k].start_time <= t /\ t + 30 + 15 <= rules[k].end_time

\* start t is a point of the 30-minute grid of a rule window it fits
C17_OnGrid(t) ==
    \E k \in DayRules("A", 0) :
        /\ rules[k].start_time <= t /\ t + 30 + 15 <= rules[k].end_time
        /\ (t - rules[k].start_time) % 30 = 0

(* C17 as stated: in the scenario no listed start has [t, t + 45) meeting  *)
(* the booking (09:45 is not listed), and 09:00 and 10:30 are listed       *)
(* whenever they respect the lead time and fit a rule window.              *)
C17_BufferAfterCandidate_Stated ==
    C17_Scenario =>
      /\ \A n \in 1..Len(slots) :
           ~ (10 * 60 < slots[n] + 30 + 15 /\ 10 * 60 + 30 > slots[n])
      /\ 9 * 60 + 45 \notin Range(slots)
      /\ \A t \in {9 * 60, 10 * 60 + 30} : C17_Eligible(t) => t \in Range(slots)

(* C17 amended: in the scenario no listed start has [t, t + 45) meeting    *)
(* the booking (09:45 is not listed), and 09:00 and 10:30 are listed       *)
(* whenever they respect the lead time, fit a rule window and lie on that  *)
(* rule's 30-minute grid; the buffer is not added after the booking, so    *)
(* 10:30 is not occluded by it.                                            *)
C17_BufferAfterCandidate ==
    C17_Scenario =>
      /\ \A n \in 1..Len(slots) :
           ~ (10 * 60 < slots[n] + 30 + 15 /\ 10 * 60 + 30 > slots[n])
      /\ 9 * 60 + 45 \notin Range(slots)
      /\ \A t \in {9 * 60, 10 * 60 + 30} :
           (C17_Eligible(t) /\ C17_OnGrid(t)) => t \in Range(slots)

\* 09:45 is a grid point that respects the lead time and is not listed,
\* while 09:00 and 10:30 are listed
C17_Witness ==
    /\ C17_Scenario
    /\ C17_Eligible(9 * 60 + 45) /\ C17_OnGrid(9 * 60 + 45)
    /\ 9 * 60 + 45 \notin Range(slots)
    /\ 9 * 60 \in Range(slots)
    /\ 10 * 60 + 30 \in Range(slots)

C19_Occluded(t) ==
    \/ \E i \in 1..Len(bookings) :
         /\ bookings[i].workspace = query.workspace
         /\ bookings[i].status = CONFIRMED
         /\ Occludes(bookings[i].start_at, bookings[i].end_at, t, query.duration_min)
    \/ \E x \in timeoffs :
         /\ x.workspace = query.workspace
         /\ Occludes(x.start_at, x.end_at, t, query.duration_min)

(* C19: a slot query is answered with the empty list when the workspace    *)
(* has no rule for the weekday of the day, when service plus buffer is     *)
(* longer than every rule window of the day, and when every grid start of  *)
(* the day is occluded by a Confirmed booking or a time-off row.           *)
C19_EmptyNotError ==
    query.asked =>
      /\ DayRules(query.workspace, query.day) = {} => slots = <<>>
      /\ (\A k \in DayRules(query.workspace, query.day) :
            rules[k].end_time - rules[k].start_time < query.duration_min + 15)
           => slots = <<>>
      /\ (\A t \in GridStarts(query.workspace, query.duration_min, query.day) :
            C19_Occluded(t))
           => slots = <<>>

\* a day with grid starts after the lead time, all of them occluded, was
\* answered with the empty list
C19_Witness ==
    /\ query.asked
    /\ slots = <<>>
    /\ \E t \in GridStarts(query.workspace, query.duration_min, query.day) :
         t >= query.now + 2 * 60
    /\ \A t \in GridStarts(query.workspace, query.duration_min, query.day) :
         C19_Occluded(t)

(* C20: every stored booking ends after it starts, and its end is its      *)
(* start plus the duration of a service of its workspace: the row a create *)
(* call commits has end = start + the duration of the service the call was *)
(* made for, and (C13) start and end never change afterwards.              *)
C20_EndIsStartPlusDuration ==
    /\ [](\A i \in 1..Len(bookings) :
            /\ bookings[i].end_at > bookings[i].start_at
            /\ \E svc \in Services :
                 /\ svc.workspace = bookings[i].workspace
                 /\ bookings[i].end_at = bookings[i].start_at + svc.duration_min)
    /\ [][ \A p \in Proc :
             (pc[p] = "tx_insert" /\ pc'[p] = "idle")
             => /\ Len(bookings') = Len(bookings) + 1
                /\ bookings'[Len(bookings')].start_at = req[p].start_at
                /\ bookings'[Len(bookings')].end_at
                     = req[p].start_at + req[p].duration_min ]_vars

\* bookings of a 60-minute and of a 30-minute service are stored
C20_Witness ==
    \E i, j \in 1..Len(bookings) :
        /\ bookings[i].end_at - bookings[i].start_at = 60
        /\ bookings[j].end_at - bookings[j].start_at = 30

(* C21: as a set, a slot list is exactly the set of starts t such that,    *)
(* for some rule r of the day's weekday, t = r.start + k * 30 min with     *)
(* k >= 0 and t + duration + buffer <= r.end, t >= now + 2 h, and          *)
(* [t, t + duration + buffer) meets no time-off row and no Confirmed       *)
(* booking of the workspace.                                               *)
C21_ExactSet ==
    query.asked =>
      Range(slots) =
        { t \in GridStarts(query.workspace, query.duration_min, query.day) :
            /\ t >= query.now + 2 * 60
            /\ ~ C19_Occluded(t) }

\* a list that has starts on both sides of an occluded grid start, after
\* grid starts left out for the lead time
C21_Witness ==
    /\ query.asked
    /\ \E t \in GridStarts(query.workspace, query.duration_min, query.day) :
         t < query.now + 2 * 60
    /\ \E t \in GridStarts(query.workspace, query.duration_min, query.day) :
         /\ t >= query.now + 2 * 60
         /\ C19_Occluded(t)
         /\ \E m, n \in 1..Len(slots) : slots[m] < t /\ t < slots[n]

(* C22: a grid start that is exactly the instant of the query plus the     *)
(* lead time of 2 hours is listed when it is not occluded: the lead-time   *)
(* test leaves out only starts before that instant.                        *)
C22_ThresholdAccepted ==
    query.asked =>
      \A t \in GridStarts(query.workspace, query.duration_min, query.day) :
        (t = query.now + 2 * 60 /\ ~ C19_Occluded(t)) => t \in Range(slots)

\* the first start of a list is exactly the query's instant plus 2 hours
C22_Witness ==
    /\ query.asked
    /\ slots # <<>>
    /\ slots[1] = query.now + 2 * 60
    /\ slots[1] \in GridStarts(query.workspace, query.duration_min, query.day)

\* the points of the 30-minute grids of the day's rules of workspace ws
C23_GridPoints(ws, day) ==
    UNION { { day * DAY_MINUTES + rules[k].start_time + n * step :
                n \in 0..(DAY_MINUTES \div step) } : k \in DayRules(ws, day) }

\* every minute of [t, t + dur + buffer) lies in the window of some rule of
\* the day
C23_CoveredByUnion(ws, day, t, dur) ==
    \A m \in t..(t + dur + PAUZA_MIN - 1) :
        \E k \in DayRules(ws, day) :
            /\ day * DAY_MINUTES + rules[k].start_time <= m
            /\ m < day * DAY_MINUTES + rules[k].end_time

(* C23: the rules of a weekday are open hours as a union: a grid start     *)
(* whose interval [t, t + duration + buffer) is covered by the union of    *)
(* the day's rule windows, respects the lead time and is not occluded is   *)
(* listed, also when no single rule contains the whole interval.           *)
C23_UnionOfWindows ==
    query.asked =>
      \A t \in C23_GridPoints(query.workspace, query.day) :
        (/\ C23_CoveredByUnion(query.workspace, query.day, t, query.duration_min)
         /\ t >= query.now + 2 * 60
         /\ ~ C19_Occluded(t))
        => t \in Range(slots)

(* C24: a cancel request by the customer on a Confirmed booking is never   *)
(* rejected by the validation that Booking.save runs before the update: it *)
(* goes on to the update, which reports the cancellation and leaves the    *)
(* booking Cancelled.                                                      *)
C24_CancelNeverRejected ==
    [][ \A p \in Proc :
          /\ (/\ pc[p] = "cancel_clean" /\ pc'[p] # "cancel_clean"
              /\ bookings[req[p].id].status = CONFIRMED)
               => pc'[p] = "cancel_update"
          /\ (/\ pc[p] = "cancel_update" /\ pc'[p] # "cancel_update"
              /\ bookings[req[p].id].status = CONFIRMED)
               => /\ result'[p] = "cancelled"
                  /\ bookings'[req[p].id].status = CANCELLED ]_vars

(* C25: when a create call made through book_confirm commits, no other     *)
(* Confirmed booking of the workspace meets its interval with the buffer,  *)
(* [start, start + duration + 15 min): the buffer the slot list checked    *)
(* still holds at the commit.                                              *)
C25_BufferHoldsAtCommit ==
    [][ \A p \in Proc :
          (pc[p] = "tx_insert" /\ pc'[p] = "idle")
          => \A i \in 1..Len(bookings) :
               (bookings[i].workspace = req[p].workspace
                /\ bookings[i].status = CONFIRMED)
               => ~ Occludes(bookings[i].start_at, bookings[i].end_at,
                             req[p].start_at, req[p].duration_min) ]_vars

(* C26: when a create call made through book_confirm commits, its interval *)
(* [start, end) meets no time-off row stored for the workspace at that     *)
(* moment, however the provider's time-off requests are interleaved with   *)
(* the booking.                                                            *)
C26_NoBookingInTimeOff ==
    [][ \A p \in Proc :
          (pc[p] = "tx_insert" /\ pc'[p] = "idle")
          => \A x \in timeoffs :
               x.workspace = req[p].workspace
               => ~ (x.start_at < req[p].end_at /\ x.end_at > req[p].start_at) ]_vars

====
